---- MODULE Spec2Model ----
(***************************************************************************)
(* MrsWatson: the offline plugin host's main() as a state machine.         *)
(* One action per statement (or guarded block) of main(); the collaborators *)
(* main() calls (SampleSource, MidiSequence, PluginChain, TaskTimer,        *)
(* AudioClock) are modelled at their interface.                             *)
(***************************************************************************)
EXTENDS Integers, Sequences, FiniteSets

\* ---------------------------------------------------------------- bounds
MaxPlugins == 2
MaxFrames == 1
MaxBlocksize == 2
MaxTimestamp == 1
MaxEvents == 2
MaxTime == 2

\* ------------------------------------------------------- program constants
RETURN_CODE_SUCCESS == "RETURN_CODE_SUCCESS"
RETURN_CODE_NOT_RUN == "RETURN_CODE_NOT_RUN"
RETURN_CODE_INVALID_ARGUMENT == "RETURN_CODE_INVALID_ARGUMENT"
RETURN_CODE_MISSING_REQUIRED_OPTION == "RETURN_CODE_MISSING_REQUIRED_OPTION"
RETURN_CODE_IO_ERROR == "RETURN_CODE_IO_ERROR"
RETURN_CODE_PLUGIN_ERROR == "RETURN_CODE_PLUGIN_ERROR"
RETURN_CODE_INVALID_PLUGIN_CHAIN == "RETURN_CODE_INVALID_PLUGIN_CHAIN"

PLUGIN_TYPE_EFFECT == "PLUGIN_TYPE_EFFECT"
PLUGIN_TYPE_INSTRUMENT == "PLUGIN_TYPE_INSTRUMENT"
PluginTypes == {PLUGIN_TYPE_EFFECT, PLUGIN_TYPE_INSTRUMENT}

\* A source pointer: NULL, a source built from a command-line argument, or the
\* built-in silence source.
NULL == "NULL"
SOURCE_FILE == "SOURCE_FILE"
SAMPLE_SOURCE_TYPE_SILENCE == "SAMPLE_SOURCE_TYPE_SILENCE"

\* ------------------------------------------------------------ input sets
\* Plugin chains the -p argument can build (empty when -p is absent).
PluginChains == UNION {[1..n -> PluginTypes] : n \in 0..MaxPlugins}

\* Blocksizes; 256 is the blocksize of the documented scenarios, which come
\* with a 1000-frame input and MIDI events at samples 0, 300 and 600.
Blocksizes == (1..MaxBlocksize) \cup {256}

\* Frame counts of an input file for a blocksize.
FrameCounts(b) == IF b = 256 THEN {1000} ELSE 0..MaxFrames

IsSorted(s) == \A i \in 1..Len(s) - 1 : s[i] <= s[i + 1]

\* MIDI sequences: timestamps in file order, ascending.
MidiSequences(b) ==
    IF b = 256 THEN {<<0, 300, 600>>}
    ELSE {s \in UNION {[1..n -> 0..MaxTimestamp] : n \in 0..MaxEvents} : IsSorted(s)}

Min(a, b) == IF a < b THEN a ELSE b

VARIABLES
    pc,                 \* position in main()
    returnCode,         \* value returned by main(), "" while running
    lastError,          \* last message passed to logError/logWarn
    returnedAt,         \* the statement that returned from main(), "" while running
    plugins,            \* pluginChain->plugins, as the sequence of plugin types
    pluginsOpened,      \* number of plugins opened by initializePluginChain
    blocksize,          \* AudioSettings blocksize
    inputSource,        \* NULL | SOURCE_FILE | SAMPLE_SOURCE_TYPE_SILENCE
    outputSource,       \* NULL | SOURCE_FILE
    midiSource,         \* NULL | SOURCE_FILE
    opened,             \* sources successfully opened, subset of {"input","output","midi"}
    closed,             \* sources closed (freed)
    inputFrames,        \* frames the input file held when it was opened
    inputRemaining,     \* frames left in the input file
    hasMidiSequence,    \* midiSequence != NULL
    midiSequence,       \* loaded event timestamps
    finishedReading,    \* loop variable of main()
    midiEventsForBlock, \* indices of the events of the current block
    chainPos,           \* next plugin of processPluginChainAudio (0-based)
    audioClock,         \* AudioClock currentSample
    clockStopped,       \* stopAudioClock() was called
    numTasks,           \* taskTimer->numTasks
    currentTask,        \* taskTimer->currentTask, -1 when no task is timed
    startTime,          \* taskTimer start time of the current task
    totalTaskTimes,     \* taskTimer->totalTaskTimes
    totalProcessingTime,\* sum computed by main() for the report
    now,                \* wall clock
    firstStart,         \* wall clock at the first startTimingTask, -1 before
    stopTime,           \* wall clock at stopTiming, -1 before
    numReads,           \* readSampleBlock calls
    numWrites,          \* writeSampleBlock calls
    numProcessed,       \* processPluginChainAudio calls
    numAdvances,        \* advanceAudioClock calls
    inputEof,           \* readSampleBlock has signalled end-of-stream
    readsAfterEof,      \* readSampleBlock calls made after it signalled end-of-stream
    writeFailedAt,      \* block index of the first failed write, -1 if none
    openFailed,         \* an open, the chain initialization or the MIDI load failed
    dispatchCount,      \* per event: times passed to processPluginChainMidiEvents
    dispatchBlock,      \* per event: block index of its last dispatch, -1 if none
    numDispatches       \* processPluginChainMidiEvents calls

configVars == <<plugins, blocksize, inputSource, outputSource, midiSource>>
sourceVars == <<opened, closed, inputFrames, inputRemaining, hasMidiSequence, midiSequence>>
loopVars == <<finishedReading, midiEventsForBlock, chainPos>>
clockVars == <<audioClock, clockStopped>>
timerVars == <<numTasks, currentTask, startTime, totalTaskTimes, totalProcessingTime,
               firstStart, stopTime>>
countVars == <<numReads, numWrites, numProcessed, numAdvances, inputEof, readsAfterEof,
               writeFailedAt>>
midiVars == <<dispatchCount, dispatchBlock, numDispatches>>

vars == <<pc, returnCode, lastError, returnedAt, pluginsOpened, openFailed, now,
          configVars, sourceVars, loopVars, clockVars, timerVars, countVars, midiVars>>

\* State after lines 49-59: logger, settings and clock initialised, every
\* source pointer NULL, an empty plugin chain.
Init ==
    /\ pc = "parseCommandLine"
    /\ returnCode = ""
    /\ lastError = ""
    /\ returnedAt = ""
    /\ plugins = <<>>
    /\ pluginsOpened = 0
    /\ blocksize = 1
    /\ inputSource = NULL
    /\ outputSource = NULL
    /\ midiSource = NULL
    /\ opened = {}
    /\ closed = {}
    /\ inputFrames = 0
    /\ inputRemaining = 0
    /\ hasMidiSequence = FALSE
    /\ midiSequence = <<>>
    /\ finishedReading = FALSE
    /\ midiEventsForBlock = <<>>
    /\ chainPos = 0
    /\ audioClock = 0
    /\ clockStopped = FALSE
    /\ numTasks = 0
    /\ currentTask = -1
    /\ startTime = 0
    /\ totalTaskTimes = <<>>
    /\ totalProcessingTime = 0
    /\ now = 0
    /\ firstStart = -1
    /\ stopTime = -1
    /\ numReads = 0
    /\ numWrites = 0
    /\ numProcessed = 0
    /\ numAdvances = 0
    /\ inputEof = FALSE
    /\ readsAfterEof = 0
    /\ writeFailedAt = -1
    /\ openFailed = FALSE
    /\ dispatchCount = <<>>
    /\ dispatchBlock = <<>>
    /\ numDispatches = 0

\* return <code>; with the message logged just before it
Return(code, msg) ==
    /\ pc' = "done"
    /\ returnCode' = code
    /\ lastError' = msg
    /\ returnedAt' = pc

Goto(label) ==
    /\ pc' = label
    /\ UNCHANGED <<returnCode, lastError, returnedAt>>

\* ------------------------------------------------------------ before the loop

\* Lines 61-64: parseCommandLine fails -> invalid argument.
ParseCommandLine ==
    /\ pc = "parseCommandLine"
    /\ \E ok \in BOOLEAN :
          IF ok THEN Goto("helpOrVersion")
                ELSE Return(RETURN_CODE_INVALID_ARGUMENT, "")
    /\ UNCHANGED <<pluginsOpened, openFailed, now, configVars, sourceVars, loopVars,
                   clockVars, timerVars, countVars, midiVars>>

\* Lines 66-90: --help (or no argument), --version, --list-file-types print
\* and return without running.
HelpOrVersion ==
    /\ pc = "helpOrVersion"
    /\ \E informational \in BOOLEAN :
          IF informational THEN Return(RETURN_CODE_NOT_RUN, "")
                           ELSE Goto("parseOptions")
    /\ UNCHANGED <<pluginsOpened, openFailed, now, configVars, sourceVars, loopVars,
                   clockVars, timerVars, countVars, midiVars>>

\* Lines 103-140: the option loop. Sources are created (not opened) from the
\* options given; the chain is built from the -p argument, and a plugin that
\* cannot be added ends the run with k plugins of the argument added.
ParseOptions ==
    /\ pc = "parseOptions"
    /\ \E b \in Blocksizes, in \in {NULL, SOURCE_FILE}, out \in {NULL, SOURCE_FILE},
          midi \in {NULL, SOURCE_FILE}, chain \in PluginChains, k \in 0..MaxPlugins :
          /\ k <= Len(chain)
          /\ blocksize' = b
          /\ inputSource' = in
          /\ outputSource' = out
          /\ midiSource' = midi
          /\ plugins' = SubSeq(chain, 1, k)
          /\ IF k = Len(chain)
                THEN Goto("verifyPluginChain")
                ELSE Return(RETURN_CODE_INVALID_PLUGIN_CHAIN, "")
    /\ UNCHANGED <<pluginsOpened, openFailed, now, sourceVars, loopVars,
                   clockVars, timerVars, countVars, midiVars>>

\* Line 149 with the comparison never true.
ChainIsEmptyNever == FALSE

\* Line 149: pluginChain->numPlugins == 0.
ChainIsEmpty == Len(plugins) = 0

\* Lines 148-152: an empty chain is a missing required option.
VerifyPluginChain ==
    /\ pc = "verifyPluginChain"
    /\ IF ChainIsEmpty
          THEN Return(RETURN_CODE_MISSING_REQUIRED_OPTION, "No plugins loaded")
          ELSE Goto("initializePluginChain")
    /\ UNCHANGED <<pluginsOpened, openFailed, now, configVars, sourceVars, loopVars,
                   clockVars, timerVars, countVars, midiVars>>

\* initializePluginChain: opens the plugins in chain order and stops at the
\* first that fails to open; k plugins were opened, all of them iff it succeeds.
initializePluginChain(k) ==
    /\ k \in 0..Len(plugins)
    /\ pluginsOpened' = k

\* Lines 153-156.
InitializePluginChain ==
    /\ pc = "initializePluginChain"
    /\ \E k \in 0..MaxPlugins :
          /\ initializePluginChain(k)
          /\ IF k = Len(plugins)
                THEN Goto("verifyOutputSource") /\ UNCHANGED openFailed
                ELSE /\ Return(RETURN_CODE_PLUGIN_ERROR, "Could not initialize plugin chain")
                     /\ openFailed' = TRUE
    /\ UNCHANGED <<now, configVars, sourceVars, loopVars,
                   clockVars, timerVars, countVars, midiVars>>

\* Lines 162-166.
VerifyOutputSource ==
    /\ pc = "verifyOutputSource"
    /\ IF outputSource = NULL
          THEN Return(RETURN_CODE_MISSING_REQUIRED_OPTION, "No output source")
          ELSE Goto("verifyInputSource")
    /\ UNCHANGED <<pluginsOpened, openFailed, now, configVars, sourceVars, loopVars,
                   clockVars, timerVars, countVars, midiVars>>

\* Line 170-171: the head plugin is an instrument.
HeadIsInstrument == Len(plugins) > 0 /\ plugins[1] = PLUGIN_TYPE_INSTRUMENT

\* Line 173 with the comparison never true.
MidiSourceMissingNever == FALSE

\* Line 173: midiSource == NULL.
MidiSourceMissing == midiSource = NULL

\* Lines 167-182: without an input source, an instrument at the head of the
\* chain gets the silence source and needs a MIDI source.
VerifyInputSource ==
    /\ pc = "verifyInputSource"
    /\ IF inputSource # NULL
          THEN Goto("openInputSource") /\ UNCHANGED inputSource
          ELSE IF HeadIsInstrument
                  THEN /\ inputSource' = SAMPLE_SOURCE_TYPE_SILENCE
                       /\ IF MidiSourceMissing
                             THEN Return(RETURN_CODE_MISSING_REQUIRED_OPTION,
                                         "Plugin chain contains an instrument, but no MIDI source was supplied")
                             ELSE Goto("openInputSource")
                  ELSE /\ Return(RETURN_CODE_MISSING_REQUIRED_OPTION, "No input source")
                       /\ UNCHANGED inputSource
    /\ UNCHANGED <<pluginsOpened, openFailed, now, plugins, blocksize, outputSource,
                   midiSource, sourceVars, loopVars, clockVars, timerVars, countVars,
                   midiVars>>

\* openSampleSource for reading: the silence source never fails to open; a
\* file may, and an opened file holds some number of frames.
openSampleSourceRead(ok, frames) ==
    /\ inputSource = SAMPLE_SOURCE_TYPE_SILENCE => ok
    /\ frames \in FrameCounts(blocksize)
    /\ inputSource = SAMPLE_SOURCE_TYPE_SILENCE \/ ~ok => frames = 0

\* Lines 184-188.
OpenInputSource ==
    /\ pc = "openInputSource"
    /\ \E ok \in BOOLEAN, frames \in FrameCounts(blocksize) :
          /\ openSampleSourceRead(ok, frames)
          /\ IF ok
                THEN /\ opened' = opened \cup {"input"}
                     /\ inputFrames' = frames
                     /\ inputRemaining' = frames
                     /\ Goto("openOutputSource")
                     /\ UNCHANGED openFailed
                ELSE /\ Return(RETURN_CODE_IO_ERROR, "Input source could not be opened")
                     /\ openFailed' = TRUE
                     /\ UNCHANGED <<opened, inputFrames, inputRemaining>>
    /\ UNCHANGED <<pluginsOpened, now, configVars, closed, hasMidiSequence, midiSequence,
                   loopVars, clockVars, timerVars, countVars, midiVars>>

\* Lines 189-192 with the return of line 191 dropped.
OpenOutputSourceNoReturn ==
    /\ pc = "openOutputSource"
    /\ \E ok \in BOOLEAN :
          /\ opened' = IF ok THEN opened \cup {"output"} ELSE opened
          /\ openFailed' = (openFailed \/ ~ok)
          /\ pc' = "openMidiSource"
          /\ returnCode' = returnCode
          /\ returnedAt' = returnedAt
          /\ lastError' = IF ok THEN lastError ELSE "Output source could not be opened"
    /\ UNCHANGED <<pluginsOpened, now, configVars, closed, inputFrames, inputRemaining,
                   hasMidiSequence, midiSequence, loopVars, clockVars, timerVars,
                   countVars, midiVars>>

\* Lines 189-192.
OpenOutputSource ==
    /\ pc = "openOutputSource"
    /\ \E ok \in BOOLEAN :
          IF ok
             THEN /\ opened' = opened \cup {"output"}
                  /\ Goto("openMidiSource")
                  /\ UNCHANGED openFailed
             ELSE /\ Return(RETURN_CODE_IO_ERROR, "Output source could not be opened")
                  /\ openFailed' = TRUE
                  /\ UNCHANGED opened
    /\ UNCHANGED <<pluginsOpened, now, configVars, closed, inputFrames, inputRemaining,
                   hasMidiSequence, midiSequence, loopVars, clockVars, timerVars,
                   countVars, midiVars>>

\* Lines 193-197.
OpenMidiSource ==
    /\ pc = "openMidiSource"
    /\ IF midiSource = NULL
          THEN Goto("setupProcessing") /\ UNCHANGED <<opened, openFailed>>
          ELSE \E ok \in BOOLEAN :
                  IF ok
                     THEN /\ opened' = opened \cup {"midi"}
                          /\ Goto("readMidiEvents")
                          /\ UNCHANGED openFailed
                     ELSE /\ Return(RETURN_CODE_IO_ERROR, "MIDI source could not be opened")
                          /\ openFailed' = TRUE
                          /\ UNCHANGED opened
    /\ UNCHANGED <<pluginsOpened, now, configVars, closed, inputFrames, inputRemaining,
                   hasMidiSequence, midiSequence, loopVars, clockVars, timerVars,
                   countVars, midiVars>>

\* Lines 199-205: the whole MIDI file is loaded into a new sequence.
ReadMidiEvents ==
    /\ pc = "readMidiEvents"
    /\ hasMidiSequence' = TRUE
    /\ \E ok \in BOOLEAN, events \in MidiSequences(blocksize) :
          IF ok
             THEN /\ midiSequence' = events
                  /\ dispatchCount' = [i \in 1..Len(events) |-> 0]
                  /\ dispatchBlock' = [i \in 1..Len(events) |-> -1]
                  /\ Goto("setupProcessing")
                  /\ UNCHANGED openFailed
             ELSE /\ events = <<>>
                  /\ Return(RETURN_CODE_IO_ERROR, "Failed reading MIDI events from source")
                  /\ openFailed' = TRUE
                  /\ UNCHANGED <<midiSequence, dispatchCount, dispatchBlock>>
    /\ UNCHANGED <<pluginsOpened, now, configVars, opened, closed, inputFrames, inputRemaining,
                   loopVars, clockVars, timerVars, countVars, numDispatches>>

\* Line 217.
hostTaskId == numTasks - 1

\* Lines 208-217: buffers, finishedReading = false, and a task timer with one
\* slot per plugin and a last slot for the host.
SetupProcessing ==
    /\ pc = "setupProcessing"
    /\ finishedReading' = FALSE
    /\ numTasks' = Len(plugins) + 1
    /\ totalTaskTimes' = [i \in 0..Len(plugins) |-> 0]
    /\ currentTask' = -1
    /\ Goto("loopTest")
    /\ UNCHANGED <<pluginsOpened, openFailed, now, configVars, sourceVars,
                   midiEventsForBlock, chainPos, clockVars, startTime,
                   totalProcessingTime, firstStart, stopTime, countVars, midiVars>>

PreLoop ==
    \/ ParseCommandLine
    \/ HelpOrVersion
    \/ ParseOptions
    \/ VerifyPluginChain
    \/ InitializePluginChain
    \/ VerifyOutputSource
    \/ VerifyInputSource
    \/ OpenInputSource
    \/ OpenOutputSource
    \/ OpenMidiSource
    \/ ReadMidiEvents
    \/ SetupProcessing

\* ------------------------------------------------------------ collaborators

\* TaskTimer startTimingTask: closes the window of the task being timed, if
\* any, and opens one for taskId.
startTimingTask(taskId) ==
    /\ totalTaskTimes' = IF currentTask = -1
                            THEN totalTaskTimes
                            ELSE [totalTaskTimes EXCEPT ![currentTask] = @ + (now - startTime)]
    /\ currentTask' = taskId
    /\ startTime' = now
    /\ firstStart' = IF firstStart = -1 THEN now ELSE firstStart

\* TaskTimer stopTiming: closes the open window; no task is timed afterwards.
stopTiming ==
    /\ totalTaskTimes' = IF currentTask = -1
                            THEN totalTaskTimes
                            ELSE [totalTaskTimes EXCEPT ![currentTask] = @ + (now - startTime)]
    /\ currentTask' = -1
    /\ stopTime' = now

\* Wall-clock time d passes while a step does its work: reading or writing a
\* block, or a plugin's processing.
Elapse(d) ==
    /\ now + d <= MaxTime
    /\ now' = now + d

\* readSampleBlock: the frames a read delivers; the silence source always
\* fills the block, a file delivers what is left of it.
FramesRead ==
    IF inputSource = SAMPLE_SOURCE_TYPE_SILENCE THEN blocksize
    ELSE Min(blocksize, inputRemaining)

\* readSampleBlock's result: false once fewer than blocksize frames were read.
readSampleBlock == FramesRead = blocksize

\* fillMidiEventsFromRange: the events (by index, in sequence order) with
\* startTimestamp <= timestamp < startTimestamp + length.
EventsInRange(seq, startTimestamp, length) ==
    SelectSeq([i \in 1..Len(seq) |-> i],
              LAMBDA i : startTimestamp <= seq[i] /\ seq[i] < startTimestamp + length)

\* fillMidiEventsFromRange's result: true while events remain after the range.
fillMidiEventsFromRange(seq, startTimestamp, length) ==
    \E i \in 1..Len(seq) : seq[i] >= startTimestamp + length

\* AudioClock advanceAudioClock: adds to the counter unless the clock is stopped.
advanceAudioClock(n) == IF clockStopped THEN audioClock ELSE audioClock + n

RECURSIVE SumTaskTimes(_, _)
\* totalTaskTimes[0] + ... + totalTaskTimes[n - 1]
SumTaskTimes(times, n) ==
    IF n <= 0 THEN 0 ELSE times[n - 1] + SumTaskTimes(times, n - 1)

\* ------------------------------------------------------------ the block loop

\* Line 220.
LoopTest ==
    /\ pc = "loopTest"
    /\ IF ~finishedReading THEN Goto("startHostRead") ELSE Goto("stopAudioClock")
    /\ UNCHANGED <<pluginsOpened, openFailed, now, configVars, sourceVars, loopVars,
                   clockVars, timerVars, countVars, midiVars>>

\* Lines 221, 230 and 235: startTimingTask(taskTimer, hostTaskId).
StartHost(from, to) ==
    /\ pc = from
    /\ startTimingTask(hostTaskId)
    /\ Goto(to)
    /\ UNCHANGED <<pluginsOpened, openFailed, now, configVars, sourceVars, loopVars,
                   clockVars, numTasks, totalProcessingTime, stopTime, countVars, midiVars>>

\* Line 221.
StartHostRead == StartHost("startHostRead", "readBlock")

\* Line 222 with the negation left out.
FinishedAfterReadNotNegated(result) == result

\* Line 222: finishedReading = !readSampleBlock(...).
FinishedAfterRead(result) == ~result

\* Line 225 with the MIDI branch never taken.
MidiLoadedNever == FALSE

\* Line 225: if (midiSequence).
MidiLoaded == hasMidiSequence

\* Lines 222 and 225: read one block; finishedReading is the negated result.
ReadBlock ==
    /\ pc = "readBlock"
    /\ \E d \in 0..MaxTime : Elapse(d)
    /\ inputRemaining' = IF inputSource = SAMPLE_SOURCE_TYPE_SILENCE
                            THEN inputRemaining
                            ELSE inputRemaining - FramesRead
    /\ finishedReading' = FinishedAfterRead(readSampleBlock)
    /\ inputEof' = (inputEof \/ ~readSampleBlock)
    /\ readsAfterEof' = IF inputEof THEN readsAfterEof + 1 ELSE readsAfterEof
    /\ numReads' = numReads + 1
    /\ IF MidiLoaded THEN Goto("fillMidiEvents") ELSE Goto("processAudio")
    /\ UNCHANGED <<pluginsOpened, openFailed, configVars, opened, closed, inputFrames,
                   hasMidiSequence, midiSequence, midiEventsForBlock, chainPos,
                   clockVars, timerVars, numWrites, numProcessed, numAdvances,
                   writeFailedAt, midiVars>>

\* Line 228 with a range one sample too long.
MidiRangeLengthInclusive == blocksize + 1

\* Line 228: the length argument of fillMidiEventsFromRange.
MidiRangeLength == blocksize

\* Line 228 with the input source's result kept when it reported the end.
FinishedAfterMidiQueryKeepsInput(fromInput, result) == fromInput \/ ~result

\* Line 228: finishedReading = !fillMidiEventsFromRange(...), whatever the
\* input source's read left in finishedReading.
FinishedAfterMidiQuery(fromInput, result) == ~result

\* Lines 226-228: the events of [clock, clock + blocksize); the query's result
\* overrides finishedReading.
FillMidiEvents ==
    /\ pc = "fillMidiEvents"
    /\ midiEventsForBlock' = EventsInRange(midiSequence, audioClock, MidiRangeLength)
    /\ finishedReading' = FinishedAfterMidiQuery(finishedReading,
                            fillMidiEventsFromRange(midiSequence, audioClock, MidiRangeLength))
    /\ Goto("processMidiEvents")
    /\ UNCHANGED <<pluginsOpened, openFailed, now, configVars, sourceVars, chainPos,
                   clockVars, timerVars, countVars, midiVars>>

\* PluginChain processPluginChainMidiEvents: the chain hands the events to the
\* head plugin when it is an instrument, timed against slot 0.
processPluginChainMidiEvents ==
    IF HeadIsInstrument
       THEN /\ startTimingTask(0)
            /\ \E d \in 0..MaxTime : Elapse(d)
       ELSE UNCHANGED <<totalTaskTimes, currentTask, startTime, firstStart, now>>

\* Line 229: the events of the block are passed to the chain.
ProcessMidiEvents ==
    /\ pc = "processMidiEvents"
    /\ dispatchCount' = [i \in DOMAIN dispatchCount |->
                            IF \E j \in 1..Len(midiEventsForBlock) : midiEventsForBlock[j] = i
                               THEN dispatchCount[i] + 1 ELSE dispatchCount[i]]
    /\ dispatchBlock' = [i \in DOMAIN dispatchBlock |->
                            IF \E j \in 1..Len(midiEventsForBlock) : midiEventsForBlock[j] = i
                               THEN numAdvances ELSE dispatchBlock[i]]
    /\ numDispatches' = numDispatches + 1
    /\ processPluginChainMidiEvents
    /\ Goto("startHostMidi")
    /\ UNCHANGED <<pluginsOpened, openFailed, configVars, sourceVars, loopVars,
                   clockVars, numTasks, totalProcessingTime, stopTime, countVars>>

\* Line 230.
StartHostMidi == StartHost("startHostMidi", "freeMidiEvents")

\* Line 231.
FreeMidiEvents ==
    /\ pc = "freeMidiEvents"
    /\ midiEventsForBlock' = <<>>
    /\ Goto("processAudio")
    /\ UNCHANGED <<pluginsOpened, openFailed, now, configVars, sourceVars,
                   finishedReading, chainPos, clockVars, timerVars, countVars, midiVars>>

\* PluginChain processPluginChainAudio, one plugin per step, front to back:
\* the plugin at chainPos processes the block, timed against its own slot.
processPluginChainAudio ==
    /\ chainPos < Len(plugins)
    /\ startTimingTask(chainPos)
    /\ \E d \in 0..MaxTime : Elapse(d)

\* Line 234: the call returns after the last plugin of the chain.
ProcessAudio ==
    /\ pc = "processAudio"
    /\ processPluginChainAudio
    /\ IF chainPos + 1 = Len(plugins)
          THEN /\ chainPos' = 0
               /\ numProcessed' = numProcessed + 1
               /\ Goto("startHostWrite")
          ELSE /\ chainPos' = chainPos + 1
               /\ numProcessed' = numProcessed
               /\ Goto("processAudio")
    /\ UNCHANGED <<pluginsOpened, openFailed, configVars, sourceVars, finishedReading,
                   midiEventsForBlock, clockVars, numTasks, totalProcessingTime,
                   stopTime, numReads, numWrites, numAdvances, inputEof, readsAfterEof,
                   writeFailedAt,
                   midiVars>>

\* Line 235 left out: the write follows the chain call directly.
StartHostWriteSkipped ==
    /\ pc = "startHostWrite"
    /\ Goto("writeBlock")
    /\ UNCHANGED <<pluginsOpened, openFailed, now, configVars, sourceVars, loopVars,
                   clockVars, timerVars, countVars, midiVars>>

\* Line 235.
StartHostWrite == StartHost("startHostWrite", "writeBlock")

\* Line 236: the result of writeSampleBlock is not looked at.
WriteBlock ==
    /\ pc = "writeBlock"
    /\ \E d \in 0..MaxTime : Elapse(d)
    /\ \E ok \in BOOLEAN :
          writeFailedAt' = IF ~ok /\ writeFailedAt = -1 THEN numAdvances ELSE writeFailedAt
    /\ numWrites' = numWrites + 1
    /\ Goto("advanceAudioClock")
    /\ UNCHANGED <<pluginsOpened, openFailed, configVars, sourceVars, loopVars,
                   clockVars, timerVars, numReads, numProcessed, numAdvances, inputEof,
                   readsAfterEof,
                   midiVars>>

\* Line 238 with an advance one sample too long.
ClockAdvanceOffByOne == blocksize + 1

\* Line 238: the argument of advanceAudioClock.
ClockAdvance == blocksize

\* Line 238.
AdvanceAudioClock ==
    /\ pc = "advanceAudioClock"
    /\ audioClock' = advanceAudioClock(ClockAdvance)
    /\ numAdvances' = numAdvances + 1
    /\ Goto("loopTest")
    /\ UNCHANGED <<pluginsOpened, openFailed, now, configVars, sourceVars, loopVars,
                   clockStopped, timerVars, numReads, numWrites, numProcessed, inputEof,
                   readsAfterEof,
                   writeFailedAt, midiVars>>

\* ------------------------------------------------------------ after the loop

\* Line 244.
StopAudioClock ==
    /\ pc = "stopAudioClock"
    /\ clockStopped' = TRUE
    /\ Goto("stopTiming")
    /\ UNCHANGED <<pluginsOpened, openFailed, now, configVars, sourceVars, loopVars,
                   audioClock, timerVars, countVars, midiVars>>

\* Line 245.
StopTiming ==
    /\ pc = "stopTiming"
    /\ stopTiming
    /\ Goto("reportTimes")
    /\ UNCHANGED <<pluginsOpened, openFailed, now, configVars, sourceVars, loopVars,
                   clockVars, numTasks, startTime, totalProcessingTime, firstStart,
                   countVars, midiVars>>

\* Line 247 with the host slot left out of the total.
SlotsSummedPluginsOnly == Len(plugins)

\* Line 247: the loop bound of the total, taskTimer->numTasks.
SlotsSummed == numTasks

\* Lines 246-258: the total over all numTasks slots, then the report.
ReportTimes ==
    /\ pc = "reportTimes"
    /\ totalProcessingTime' = SumTaskTimes(totalTaskTimes, SlotsSummed)
    /\ Goto("shutdown")
    /\ UNCHANGED <<pluginsOpened, openFailed, now, configVars, sourceVars, loopVars,
                   clockVars, numTasks, currentTask, startTime, totalTaskTimes,
                   firstStart, stopTime, countVars, midiVars>>

\* Lines 260-273: freeing a source closes it.
Shutdown ==
    /\ pc = "shutdown"
    /\ closed' = {"input", "output"} \cup (IF midiSource # NULL THEN {"midi"} ELSE {})
    /\ Goto("returnSuccess")
    /\ UNCHANGED <<pluginsOpened, openFailed, now, configVars, opened, inputFrames, inputRemaining,
                   hasMidiSequence, midiSequence, loopVars, clockVars, timerVars,
                   countVars, midiVars>>

\* Lines 275-276.
ReturnSuccess ==
    /\ pc = "returnSuccess"
    /\ Return(RETURN_CODE_SUCCESS, lastError)
    /\ UNCHANGED <<pluginsOpened, openFailed, now, configVars, sourceVars, loopVars,
                   clockVars, timerVars, countVars, midiVars>>

BlockLoop ==
    \/ LoopTest
    \/ StartHostRead
    \/ ReadBlock
    \/ FillMidiEvents
    \/ ProcessMidiEvents
    \/ StartHostMidi
    \/ FreeMidiEvents
    \/ ProcessAudio
    \/ StartHostWrite
    \/ WriteBlock
    \/ AdvanceAudioClock

PostLoop ==
    \/ StopAudioClock
    \/ StopTiming
    \/ ReportTimes
    \/ Shutdown
    \/ ReturnSuccess

Next == PreLoop \/ BlockLoop \/ PostLoop

Spec == Init /\ [][Next]_vars

\* ------------------------------------------------------------ properties

PreParsePcs == {"parseCommandLine", "helpOrVersion", "parseOptions"}
PreOpenPcs == {"verifyPluginChain", "initializePluginChain", "verifyOutputSource",
               "verifyInputSource"}
LoopPcs == {"loopTest", "startHostRead", "readBlock", "fillMidiEvents",
            "processMidiEvents", "startHostMidi", "freeMidiEvents", "processAudio",
            "startHostWrite", "writeBlock", "advanceAudioClock"}
PostLoopPcs == {"stopAudioClock", "stopTiming", "reportTimes", "shutdown", "returnSuccess"}

\* The option loop ran to its end (line 140 was reached).
OptionsParsed ==
    /\ pc \notin PreParsePcs
    /\ pc = "done" => returnCode \notin {RETURN_CODE_INVALID_ARGUMENT, RETURN_CODE_NOT_RUN,
                                         RETURN_CODE_INVALID_PLUGIN_CHAIN}

\* The loop was left through its test.
LoopExited == pc \in PostLoopPcs \/ (pc = "done" /\ returnCode = RETURN_CODE_SUCCESS)

NoBlockHandled ==
    /\ numReads = 0
    /\ numWrites = 0
    /\ numProcessed = 0
    /\ chainPos = 0
    /\ \A i \in DOMAIN dispatchCount : dispatchCount[i] = 0

NoInstrumentInChain == \A i \in 1..Len(plugins) : plugins[i] # PLUGIN_TYPE_INSTRUMENT

\* C1: a failed write of block k stops the run at block k: no later block is
\* read, processed or written, and the run ends with an I/O failure.
C1_WriteFailureStopsRun ==
    writeFailedAt # -1 =>
        /\ numReads <= writeFailedAt + 1
        /\ numProcessed <= writeFailedAt + 1
        /\ numWrites <= writeFailedAt + 1
        /\ pc = "done" => returnCode = RETURN_CODE_IO_ERROR

\* C2: with a MIDI source and no instrument in the chain the run is rejected
\* before the loop starts: the loop is not entered, no block is read, no event
\* dispatched, no block written, and the run does not end in success.
C2_MidiWithoutInstrumentRejected ==
    (OptionsParsed /\ midiSource # NULL /\ NoInstrumentInChain) =>
        /\ NoBlockHandled
        /\ pc \notin LoopPcs \cup PostLoopPcs
        /\ pc = "done" => returnCode # RETURN_CODE_SUCCESS

\* C3 as stated: with or without a MIDI sequence, no readSampleBlock call is
\* made after the input signalled end-of-stream.
C3_NoReadAfterEndOfStream == readsAfterEof = 0

\* C3 amended: without a MIDI sequence, no readSampleBlock call is made after
\* the input signalled end-of-stream, and end-of-stream ends the loop.
C3_NoReadAfterEndOfStreamWithoutMidi ==
    ~hasMidiSequence =>
        /\ readsAfterEof = 0
        /\ inputEof /\ pc \in LoopPcs => finishedReading

C3_Witness ==
    /\ pc = "done"
    /\ returnCode = RETURN_CODE_SUCCESS
    /\ ~hasMidiSequence
    /\ inputEof
    /\ numReads > 1

\* C4: without a MIDI sequence the loop makes exactly floor(F / B) + 1 reads of
\* an input of F frames at blocksize B: never more, and exactly that many once
\* the loop is left.
C4_ReadCount ==
    ("input" \in opened /\ ~hasMidiSequence) =>
        /\ numReads <= (inputFrames \div blocksize) + 1
        /\ LoopExited => numReads = (inputFrames \div blocksize) + 1
        /\ (pc = "loopTest" /\ numReads <= inputFrames \div blocksize) => ~finishedReading

C4_Witness ==
    /\ pc = "done"
    /\ returnCode = RETURN_CODE_SUCCESS
    /\ ~hasMidiSequence
    /\ inputFrames = 1000
    /\ blocksize = 256
    /\ numReads = 4

\* C5: every event of a sorted MIDI sequence is dispatched to the chain at most
\* once at any time, and exactly once by the time the loop is left.
C5_EachEventDispatchedOnce ==
    hasMidiSequence =>
        /\ \A i \in DOMAIN dispatchCount : dispatchCount[i] <= 1
        /\ LoopExited => \A i \in DOMAIN dispatchCount : dispatchCount[i] = 1

C5_Witness ==
    /\ pc = "done"
    /\ returnCode = RETURN_CODE_SUCCESS
    /\ Len(midiSequence) = MaxEvents
    /\ midiSequence[1] < blocksize
    /\ midiSequence[MaxEvents] >= blocksize
    /\ \A i \in DOMAIN dispatchCount : dispatchCount[i] = 1

\* C6: the events dispatched in block k are exactly those with
\* k * blocksize <= timestamp < (k + 1) * blocksize, in sequence order; an
\* event at the end of a block's range goes to the next block.
C6_EventsDispatchedInTheirBlock ==
    hasMidiSequence =>
        /\ \A i \in DOMAIN dispatchBlock :
              /\ dispatchBlock[i] # -1 => dispatchBlock[i] = midiSequence[i] \div blocksize
              /\ midiSequence[i] < numAdvances * blocksize =>
                    dispatchBlock[i] = midiSequence[i] \div blocksize
        /\ \A j \in 1..Len(midiEventsForBlock) :
              /\ midiSequence[midiEventsForBlock[j]] \div blocksize = numAdvances
              /\ j > 1 => midiEventsForBlock[j - 1] < midiEventsForBlock[j]
        /\ pc \in {"processMidiEvents", "startHostMidi"} =>
              \A i \in DOMAIN dispatchBlock :
                 midiSequence[i] \div blocksize = numAdvances =>
                    \E j \in 1..Len(midiEventsForBlock) : midiEventsForBlock[j] = i

C6_Witness ==
    /\ blocksize = 256
    /\ midiSequence = <<0, 300, 600>>
    /\ dispatchBlock = <<0, 1, 2>>

\* C7: with an empty chain after option parsing the run ends with the
\* missing-required-option outcome at the chain check, with no plugin and no
\* source opened and no block read or written.
C7_EmptyChainRejected ==
    (OptionsParsed /\ Len(plugins) = 0) =>
        /\ pc \in {"verifyPluginChain", "done"}
        /\ pc = "done" => /\ returnCode = RETURN_CODE_MISSING_REQUIRED_OPTION
                          /\ lastError = "No plugins loaded"
        /\ pluginsOpened = 0
        /\ opened = {}
        /\ NoBlockHandled

C7_Witness ==
    /\ pc = "done"
    /\ Len(plugins) = 0
    /\ returnCode = RETURN_CODE_MISSING_REQUIRED_OPTION
    /\ inputSource # NULL
    /\ outputSource # NULL

\* No input source was supplied: the pointer is NULL until line 172 puts the
\* silence source there.
InputNotSupplied == inputSource \in {NULL, SAMPLE_SOURCE_TYPE_SILENCE}

MissingMidiMessage ==
    "Plugin chain contains an instrument, but no MIDI source was supplied"

\* C8 as stated: with an instrument at the head of an initialized chain and
\* neither an input nor a MIDI source, the run ends with the missing-option
\* outcome citing the missing MIDI source, nothing opened, no block handled.
C8_InstrumentWithoutMidiRejected ==
    (OptionsParsed /\ HeadIsInstrument /\ InputNotSupplied /\ midiSource = NULL) =>
        /\ pc \in PreOpenPcs \cup {"done"}
        /\ opened = {}
        /\ NoBlockHandled
        /\ (pc = "done" /\ pluginsOpened = Len(plugins)) =>
              /\ returnCode = RETURN_CODE_MISSING_REQUIRED_OPTION
              /\ lastError = MissingMidiMessage

\* C8 amended: the same, for runs whose plugin chain initialized and whose
\* output source was supplied.
C8_InstrumentWithoutMidiRejectedAfterEarlierChecks ==
    (OptionsParsed /\ HeadIsInstrument /\ InputNotSupplied /\ midiSource = NULL) =>
        /\ pc \in PreOpenPcs \cup {"done"}
        /\ opened = {}
        /\ NoBlockHandled
        /\ (pc = "done" /\ pluginsOpened = Len(plugins) /\ outputSource # NULL) =>
              /\ returnCode = RETURN_CODE_MISSING_REQUIRED_OPTION
              /\ lastError = MissingMidiMessage

C8_Witness ==
    /\ pc = "done"
    /\ HeadIsInstrument
    /\ inputSource = SAMPLE_SOURCE_TYPE_SILENCE
    /\ midiSource = NULL
    /\ outputSource # NULL
    /\ lastError = MissingMidiMessage

\* C9: a failed chain initialization, source open or MIDI load ends the run
\* with a failure outcome and no block handled; the loop is entered only with
\* every plugin and every supplied source open and the MIDI events loaded.
C9_LoopOnlyAfterEveryOpen ==
    /\ openFailed =>
          /\ pc = "done"
          /\ returnCode \in {RETURN_CODE_PLUGIN_ERROR, RETURN_CODE_IO_ERROR}
          /\ NoBlockHandled
    /\ pc \in LoopPcs =>
          /\ pluginsOpened = Len(plugins)
          /\ {"input", "output"} \subseteq opened
          /\ midiSource # NULL => "midi" \in opened /\ hasMidiSequence

C9_Witness ==
    /\ openFailed
    /\ pc = "done"
    /\ opened = {"input", "output", "midi"}
    /\ hasMidiSequence
    /\ returnCode = RETURN_CODE_IO_ERROR

\* C10: from the first timer start to the final stop exactly one slot is open,
\* the closed windows plus the open one add up to the time since the first
\* start, and the total main() reports equals the time from first start to stop.
C10_TimerSumIsElapsedTime ==
    /\ (firstStart # -1 /\ stopTime = -1) =>
          /\ currentTask \in 0..numTasks - 1
          /\ SumTaskTimes(totalTaskTimes, numTasks) + (now - startTime) = now - firstStart
    /\ stopTime # -1 =>
          /\ currentTask = -1
          /\ SumTaskTimes(totalTaskTimes, numTasks) = stopTime - firstStart
    /\ pc \in {"shutdown", "returnSuccess"} \/ (pc = "done" /\ stopTime # -1) =>
          totalProcessingTime = stopTime - firstStart

C10_Witness ==
    /\ pc = "done"
    /\ returnCode = RETURN_CODE_SUCCESS
    /\ totalProcessingTime = MaxTime
    /\ totalTaskTimes[hostTaskId] > 0
    /\ totalTaskTimes[0] > 0

\* The loop steps main() performs itself: lines 222, 228, 231, 236 and 238.
OrchestratorStepPcs ==
    {"readBlock", "fillMidiEvents", "freeMidiEvents", "writeBlock", "advanceAudioClock"}

\* C11: whenever main() is about to perform one of its own loop steps, the
\* open timer slot is the host slot, the last slot (index numPlugins) of a
\* timer of numPlugins + 1 slots.
C11_HostSlotOpenDuringOrchestratorSteps ==
    pc \in OrchestratorStepPcs =>
        /\ numTasks = Len(plugins) + 1
        /\ hostTaskId = Len(plugins)
        /\ currentTask = hostTaskId

C11_Witness ==
    /\ pc = "writeBlock"
    /\ Len(plugins) = MaxPlugins
    /\ currentTask = MaxPlugins
    /\ totalTaskTimes[0] > 0

\* C13: the audio clock starts at 0, is blocksize times the number of
\* completed iterations in every state (so k * blocksize at the MIDI query of
\* iteration k), never decreases, changes only in the advance of line 238 and
\* then by blocksize, and does not change once it is stopped.
C13_ClockAdvancesOnlyAtBlockEnd ==
    [][/\ pc = "parseCommandLine" => audioClock = 0
       /\ audioClock = numAdvances * blocksize
       /\ audioClock' = numAdvances' * blocksize'
       /\ pc = "fillMidiEvents" => audioClock = (numReads - 1) * blocksize
       /\ audioClock' >= audioClock
       /\ audioClock' # audioClock =>
             /\ pc = "advanceAudioClock"
             /\ audioClock' = audioClock + blocksize
       /\ clockStopped => audioClock' = audioClock /\ clockStopped'
      ]_vars

C13_Witness ==
    /\ pc = "fillMidiEvents"
    /\ blocksize = 256
    /\ numReads = 3
    /\ audioClock = 512

\* C14: when the run has ended, every sample source that was opened has been
\* closed, whichever return ended it.
C14_OpenedSourcesClosedAtExit ==
    pc = "done" => (opened \cap {"input", "output"}) \subseteq closed

\* The outcome category of a return code.
OutcomeCategory(code) ==
    CASE code = RETURN_CODE_SUCCESS -> "success"
      [] code = RETURN_CODE_NOT_RUN -> "not run"
      [] code = RETURN_CODE_INVALID_ARGUMENT -> "invalid argument"
      [] code = RETURN_CODE_MISSING_REQUIRED_OPTION -> "missing required resource"
      [] code \in {RETURN_CODE_INVALID_PLUGIN_CHAIN, RETURN_CODE_PLUGIN_ERROR} ->
            "plugin chain failure"
      [] code = RETURN_CODE_IO_ERROR -> "I/O failure"

\* C15: each failure found before the loop ends the run in its own category:
\* command line -> invalid argument; empty chain, missing output, missing input
\* or MIDI -> missing required resource; chain construction or initialization
\* -> plugin chain failure; a failed open or MIDI load -> I/O failure; and
\* success is returned only when none of them occurred.
C15_FailureCategories ==
    pc = "done" =>
        /\ returnedAt = "parseCommandLine" =>
              OutcomeCategory(returnCode) = "invalid argument"
        /\ returnedAt = "verifyPluginChain" =>
              Len(plugins) = 0 /\ OutcomeCategory(returnCode) = "missing required resource"
        /\ returnedAt = "verifyOutputSource" =>
              outputSource = NULL /\ OutcomeCategory(returnCode) = "missing required resource"
        /\ returnedAt = "verifyInputSource" =>
              /\ InputNotSupplied /\ (~HeadIsInstrument \/ midiSource = NULL)
              /\ OutcomeCategory(returnCode) = "missing required resource"
        /\ returnedAt \in {"parseOptions", "initializePluginChain"} =>
              OutcomeCategory(returnCode) = "plugin chain failure"
        /\ returnedAt \in {"openInputSource", "openOutputSource", "openMidiSource",
                           "readMidiEvents"} =>
              openFailed /\ OutcomeCategory(returnCode) = "I/O failure"
        /\ openFailed =>
              OutcomeCategory(returnCode) \in {"plugin chain failure", "I/O failure"}
        /\ OutcomeCategory(returnCode) = "success" <=> returnedAt = "returnSuccess"
        /\ OutcomeCategory(returnCode) = "success" =>
              /\ ~openFailed
              /\ Len(plugins) > 0 /\ pluginsOpened = Len(plugins)
              /\ outputSource # NULL /\ inputSource # NULL
              /\ inputSource = SAMPLE_SOURCE_TYPE_SILENCE =>
                    HeadIsInstrument /\ midiSource # NULL

C15_Witness ==
    /\ pc = "done"
    /\ returnedAt = "readMidiEvents"
    /\ returnCode = RETURN_CODE_IO_ERROR
    /\ opened = {"input", "output", "midi"}

\* The number of completed iterations of the block loop.
IterationsDone == numAdvances

\* The MIDI dispatches that k iterations have made.
DispatchesOf(k) == IF hasMidiSequence THEN k ELSE 0

\* C16: in every iteration the steps occur once each and in order: read,
\* MIDI query and dispatch (only with a MIDI sequence loaded), chain audio,
\* write, clock advance; no step of the next iteration precedes the advance.
C16_StepsOncePerIterationInOrder ==
    LET k == IterationsDone IN
    /\ pc \in {"loopTest", "startHostRead", "readBlock"} \cup PostLoopPcs =>
          /\ numReads = k /\ numDispatches = DispatchesOf(k)
          /\ numProcessed = k /\ numWrites = k
    /\ pc \in {"fillMidiEvents", "processMidiEvents"} =>
          /\ hasMidiSequence
          /\ numReads = k + 1 /\ numDispatches = k
          /\ numProcessed = k /\ numWrites = k
    /\ pc \in {"startHostMidi", "freeMidiEvents"} =>
          /\ hasMidiSequence
          /\ numReads = k + 1 /\ numDispatches = k + 1
          /\ numProcessed = k /\ numWrites = k
    /\ pc = "processAudio" =>
          /\ numReads = k + 1 /\ numDispatches = DispatchesOf(k + 1)
          /\ numProcessed = k /\ numWrites = k
    /\ pc \in {"startHostWrite", "writeBlock"} =>
          /\ numReads = k + 1 /\ numDispatches = DispatchesOf(k + 1)
          /\ numProcessed = k + 1 /\ numWrites = k
    /\ pc = "advanceAudioClock" =>
          /\ numReads = k + 1 /\ numDispatches = DispatchesOf(k + 1)
          /\ numProcessed = k + 1 /\ numWrites = k + 1

C16_Witness ==
    /\ pc = "advanceAudioClock"
    /\ hasMidiSequence
    /\ numAdvances = 1
    /\ numReads = 2 /\ numDispatches = 2 /\ numProcessed = 2 /\ numWrites = 2

\* The statements of an iteration that follow the MIDI range query.
AfterMidiQueryPcs ==
    {"processMidiEvents", "startHostMidi", "freeMidiEvents", "processAudio",
     "startHostWrite", "writeBlock", "advanceAudioClock"}

\* The result of the MIDI range query of the iteration that starts at `clock`.
MidiQueryAt(clock) == fillMidiEventsFromRange(midiSequence, clock, blocksize)

\* C17: with a MIDI sequence loaded the loop's exit is decided by the MIDI
\* range query of the iteration alone: finishedReading is the negated query
\* result whatever the input source reported, so the loop goes on past the
\* input's end-of-stream while events remain and ends with the sequence even
\* when input frames are unread.
C17_MidiQueryDecidesLoopExit ==
    hasMidiSequence =>
        /\ pc \in AfterMidiQueryPcs => finishedReading = ~MidiQueryAt(audioClock)
        /\ (pc = "loopTest" /\ numAdvances > 0) =>
              finishedReading = ~MidiQueryAt(audioClock - blocksize)
        /\ LoopExited =>
              /\ ~MidiQueryAt(audioClock - blocksize)
              /\ \A j \in 0..(numAdvances - 2) : MidiQueryAt(j * blocksize)

C17_Witness ==
    /\ pc = "loopTest"
    /\ hasMidiSequence
    /\ inputEof
    /\ ~finishedReading
    /\ numAdvances > 0

\* The other case of C17: the loop has ended with input frames unread.
C17_EndsWithUnreadInput ==
    /\ pc = "stopAudioClock"
    /\ hasMidiSequence
    /\ ~inputEof
    /\ inputRemaining > 0

\* C18: at loop exit the reads, chain runs, writes and clock advances are equal
\* in number, the iteration that detected the end included, and the clock is
\* blocksize times the number of blocks written.
C18_CountsEqualAtLoopExit ==
    /\ LoopExited =>
          /\ numReads >= 1
          /\ numProcessed = numReads
          /\ numWrites = numReads
          /\ numAdvances = numReads
          /\ audioClock = blocksize * numWrites
    /\ (finishedReading /\ pc \in {"processAudio", "startHostWrite", "writeBlock"}) =>
          numWrites = numReads - 1 /\ audioClock = blocksize * numWrites
    /\ (finishedReading /\ pc = "advanceAudioClock") =>
          numWrites = numReads /\ audioClock = blocksize * (numWrites - 1)

C18_Witness ==
    /\ pc = "done"
    /\ returnCode = RETURN_CODE_SUCCESS
    /\ blocksize = 256
    /\ inputEof
    /\ numReads = 4 /\ numProcessed = 4 /\ numWrites = 4 /\ numAdvances = 4
    /\ audioClock = 1024

\* The iterations the block loop makes: up to the block holding the last MIDI
\* event when a sequence is loaded, up to the first short read otherwise.
LoopIterations ==
    IF hasMidiSequence
       THEN IF Len(midiSequence) = 0 THEN 1
            ELSE (midiSequence[Len(midiSequence)] \div blocksize) + 1
       ELSE (inputFrames \div blocksize) + 1

\* The steps of one iteration: ten statements and one step per plugin.
StepsPerIteration == 10 + Len(plugins)

\* The steps left in the current iteration, the current one included.
StepsLeftInIteration ==
    CASE pc = "startHostRead" -> StepsPerIteration - 1
      [] pc = "readBlock" -> StepsPerIteration - 2
      [] pc = "fillMidiEvents" -> StepsPerIteration - 3
      [] pc = "processMidiEvents" -> StepsPerIteration - 4
      [] pc = "startHostMidi" -> StepsPerIteration - 5
      [] pc = "freeMidiEvents" -> StepsPerIteration - 6
      [] pc = "processAudio" -> 3 + Len(plugins) - chainPos
      [] pc = "startHostWrite" -> 3
      [] pc = "writeBlock" -> 2
      [] pc = "advanceAudioClock" -> 1

\* A bound on the steps left from the block loop to the return of main.
LoopRank ==
    CASE pc = "loopTest" ->
            6 + (LoopIterations - numAdvances) * StepsPerIteration
      [] pc \in LoopPcs \ {"loopTest"} ->
            6 + (LoopIterations - numAdvances - 1) * StepsPerIteration
              + StepsLeftInIteration
      [] pc = "stopAudioClock" -> 5
      [] pc = "stopTiming" -> 4
      [] pc = "reportTimes" -> 3
      [] pc = "shutdown" -> 2
      [] pc = "returnSuccess" -> 1
      [] OTHER -> 0

\* A step taken from the block loop on lowers the bound.
LoopRankDecreases ==
    pc \in LoopPcs \cup PostLoopPcs => LoopRank' < LoopRank

\* C19: every run that enters the block loop leaves it and reaches the report
\* and teardown, every call returning: from the loop on a step is always
\* possible and each step lowers a natural-valued bound on the steps left; a
\* run without MIDI leaves the loop at the input's end-of-stream, and a run on
\* the silence source, which never reports end-of-stream, leaves it because
\* the MIDI sequence is exhausted.
C19_BlockLoopTerminates ==
    /\ [](pc \in LoopPcs \cup PostLoopPcs =>
            /\ ENABLED Next
            /\ LoopRank \in Nat /\ LoopRank > 0
            /\ inputSource = SAMPLE_SOURCE_TYPE_SILENCE => hasMidiSequence /\ ~inputEof
            /\ (LoopExited /\ ~hasMidiSequence) => inputEof
            /\ (LoopExited /\ hasMidiSequence) =>
                  ~fillMidiEventsFromRange(midiSequence, audioClock - blocksize, blocksize))
    /\ [][LoopRankDecreases]_vars

C19_Witness ==
    /\ pc = "done"
    /\ returnCode = RETURN_CODE_SUCCESS
    /\ inputSource = SAMPLE_SOURCE_TYPE_SILENCE
    /\ ~inputEof
    /\ numAdvances >= 2
    /\ closed = {"input", "output", "midi"}

\* The pre-loop checks in the order main makes them, by the statement whose
\* failure returns.
CheckOrder ==
    <<"verifyPluginChain", "initializePluginChain", "verifyOutputSource",
      "verifyInputSource", "openInputSource", "openOutputSource", "openMidiSource",
      "readMidiEvents">>

\* The position of a check in CheckOrder; past the last for any other statement.
CheckIndex(stmt) ==
    IF \E i \in 1..Len(CheckOrder) : CheckOrder[i] = stmt
       THEN CHOOSE i \in 1..Len(CheckOrder) : CheckOrder[i] = stmt
       ELSE Len(CheckOrder) + 1

\* What holds once the check at position i has passed.
CheckPassed(i) ==
    CASE i = 1 -> Len(plugins) > 0
      [] i = 2 -> pluginsOpened = Len(plugins)
      [] i = 3 -> outputSource # NULL
      [] i = 4 -> inputSource # NULL /\
                  (inputSource = SAMPLE_SOURCE_TYPE_SILENCE =>
                       HeadIsInstrument /\ midiSource # NULL)
      [] i = 5 -> "input" \in opened
      [] i = 6 -> "output" \in opened
      [] i = 7 -> midiSource # NULL => "midi" \in opened
      [] i = 8 -> midiSource # NULL => hasMidiSequence

\* What holds when the check at position i has not been reached.
CheckNotReached(i) ==
    CASE i = 2 -> pluginsOpened = 0
      [] i = 5 -> "input" \notin opened
      [] i = 6 -> "output" \notin opened
      [] i = 7 -> "midi" \notin opened
      [] i = 8 -> ~hasMidiSequence
      [] OTHER -> TRUE

\* C20: the pre-loop checks run in a fixed order and the first that fails
\* decides the outcome: at the return of a check every earlier check has
\* passed and no later one was made, so all plugins are open when a missing
\* output or input source is reported, and a missing output source is
\* reported in preference to a missing MIDI source.
C20_FirstFailingCheckDecides ==
    /\ (pc = "done" /\ OptionsParsed) =>
          /\ \A i \in 1..Len(CheckOrder) :
                /\ i < CheckIndex(returnedAt) => CheckPassed(i)
                /\ i > CheckIndex(returnedAt) => CheckNotReached(i)
          /\ returnedAt = "verifyPluginChain" =>
                Len(plugins) = 0 /\ lastError = "No plugins loaded"
          /\ returnedAt = "initializePluginChain" => pluginsOpened < Len(plugins)
          /\ returnedAt = "verifyOutputSource" =>
                outputSource = NULL /\ lastError = "No output source"
          /\ returnedAt = "verifyInputSource" =>
                lastError \in {"No input source", MissingMidiMessage}
    /\ (OptionsParsed /\ Len(plugins) = 0 /\ pc # "verifyPluginChain") =>
          pc = "done" /\ returnedAt = "verifyPluginChain"
    /\ (OptionsParsed /\ Len(plugins) > 0 /\ pluginsOpened = Len(plugins)
          /\ outputSource = NULL /\ pc # "verifyOutputSource") =>
          pc = "done" /\ returnedAt = "verifyOutputSource"

C20_Witness ==
    /\ pc = "done"
    /\ lastError = "No output source"
    /\ returnCode = RETURN_CODE_MISSING_REQUIRED_OPTION
    /\ HeadIsInstrument
    /\ midiSource = NULL
    /\ inputSource = NULL
    /\ Len(plugins) = MaxPlugins
    /\ pluginsOpened = Len(plugins)
    /\ opened = {}

====
